---- MODULE Spec2Model ----
(***************************************************************************)
(* Model of the Schedy generic2 actor (hass_apps/schedy/actor/generic2.py) *)
(* and of its switch specialisation (hass_apps/schedy/actor/switch.py).    *)
(*                                                                         *)
(* Python values are tagged records [ty, v, n]: ty is the Python type, v   *)
(* the text of str(value), n the numeric value of a number (0 otherwise).  *)
(* A value tuple and a pattern are sequences of such records.              *)
(***************************************************************************)
EXTENDS Integers, Sequences, FiniteSets, TLC

VARIABLES
    cfg,            \* self.cfg: [slots, values], values as sorted by the schema
    raw_values,     \* the "values" list as configured, before the schema's sort
    wanted_value,   \* self._wanted_value
    invoked,        \* every self.app.call_service(service, **data) made so far
    ret             \* the running/last operation: its input and its outcome

vars == <<cfg, raw_values, wanted_value, invoked, ret>>

---------------------------------------------------------------------------
(* Bounds of the model *)

MaxLen == 2     \* longest pattern, value tuple and slot list
MaxRules == 2   \* most rules in a generated "values" list
MaxCalls == 2   \* the external invoker may fail at its 1st .. MaxCalls-th call

---------------------------------------------------------------------------
(* Python values *)

Str(s) == [ty |-> "str", v |-> s, n |-> 0]
Int1 == [ty |-> "int", v |-> "1", n |-> 1]
Flt1 == [ty |-> "float", v |-> "1.0", n |-> 1]
TrueV == [ty |-> "bool", v |-> "True", n |-> 1]
NoneV == [ty |-> "none", v |-> "None", n |-> 0]
DictV == [ty |-> "dict", v |-> "{}", n |-> 0]
ListV == [ty |-> "list", v |-> "[]", n |-> 0]
On == Str("on")
Off == Str("off")

ALLOWED_VALUE_TYPES == {"float", "int", "str", "none"}
WILDCARD_VALUE == Str("*")

\* bool is a subclass of int; every other modelled type has no modelled base
Bases(ty) == IF ty = "bool" THEN {"bool", "int"} ELSE {ty}
IsInstance(x, types) == Bases(x.ty) \cap types # {}

IsNumber(x) == x.ty \in {"int", "float", "bool"}
\* a == b of Python: numbers compare by value across int, float and bool
PyEq(a, b) ==
    IF IsNumber(a) /\ IsNumber(b) THEN a.n = b.n
    ELSE a.ty = b.ty /\ a.v = b.v
\* x in tup
PyIn(x, tup) == \E i \in 1..Len(tup) : PyEq(tup[i], x)

---------------------------------------------------------------------------
(* Generic2Actor._find_value_cfg *)

\* a bug: the wildcard is not accepted, only the value itself
RECURSIVE SlotsLoopNoWildcard(_, _, _)
SlotsLoopNoWildcard(slots, value, idx) ==
    IF idx > Len(slots) THEN TRUE
    ELSE IF ~PyIn(slots[idx], <<value[idx]>>) THEN FALSE
    ELSE SlotsLoopNoWildcard(slots, value, idx + 1)

\* the inner for/else: TRUE when the loop over the slots ends without break
RECURSIVE SlotsLoop(_, _, _)
SlotsLoop(slots, value, idx) ==
    IF idx > Len(slots) THEN TRUE
    ELSE IF ~PyIn(slots[idx], <<WILDCARD_VALUE, value[idx]>>) THEN FALSE
    ELSE SlotsLoop(slots, value, idx + 1)

\* the outer loop from rule i on: the index of the rule returned, 0 for ValueError
RECURSIVE FindLoop(_, _, _)
FindLoop(values, value, i) ==
    IF i > Len(values) THEN 0
    ELSE IF Len(values[i].slots) # Len(value) THEN FindLoop(values, value, i + 1)
    ELSE IF SlotsLoop(values[i].slots, value, 1) THEN i
    ELSE FindLoop(values, value, i + 1)

_find_value_cfg(values, value) == FindLoop(values, value, 1)

---------------------------------------------------------------------------
(* Generic2Actor.config_schema_dict: the sort of the "values" list *)

\* the rules of vs whose pattern has exactly len elements, in the order of vs
RECURSIVE OfLen(_, _)
OfLen(vs, len) ==
    IF vs = <<>> THEN <<>>
    ELSE (IF Len(Head(vs).slots) = len THEN <<Head(vs)>> ELSE <<>>)
         \o OfLen(Tail(vs), len)

\* sorted(v, key=lambda k: -len(k["slots"])): Python's sort is stable, so the
\* result is the rules of length len, then those of len - 1, ..., then of 0
RECURSIVE SortedFrom(_, _)
SortedFrom(vs, len) ==
    IF len < 0 THEN <<>> ELSE OfLen(vs, len) \o SortedFrom(vs, len - 1)

RECURSIVE MaxSlots(_)
MaxSlots(vs) ==
    IF vs = <<>> THEN 0
    ELSE LET m == MaxSlots(Tail(vs)) l == Len(Head(vs).slots)
         IN IF l > m THEN l ELSE m

SortValues(vs) == SortedFrom(vs, MaxSlots(vs))

---------------------------------------------------------------------------
(* Generic2Actor.filter_set_value, notify_state_changed, validate_value *)

\* a returned tuple, or None
Some(t) == [none |-> FALSE, value |-> t]
None == [none |-> TRUE, value |-> <<>>]

\* a bug: the lookup's ValueError is not turned into None
filter_set_value_unchecked(values, value) == Some(value)

filter_set_value(values, value) ==
    IF _find_value_cfg(values, value) = 0 THEN None ELSE Some(value)

\* attrs.get(attr): attrs is a function on the attribute names it holds
AttrsGet(attrs, attr) == IF attr \in DOMAIN attrs THEN attrs[attr] ELSE NoneV

\* tuple(items): one state per configured slot, in slot order
ObservedTuple(slots, attrs) ==
    [i \in 1..Len(slots) |-> AttrsGet(attrs, slots[i].attribute)]

\* a bug: range(len(tpl), 0, -1), the empty prefix is never tried
RECURSIVE PrefixLoopNoEmpty(_, _, _)
PrefixLoopNoEmpty(values, tpl, size) ==
    IF size < 1 THEN None
    ELSE IF _find_value_cfg(values, SubSeq(tpl, 1, size)) # 0
         THEN Some(SubSeq(tpl, 1, size))
         ELSE PrefixLoopNoEmpty(values, tpl, size - 1)

\* a bug: return tpl, the full tuple, in place of the prefix that matched
RECURSIVE PrefixLoopFull(_, _, _)
PrefixLoopFull(values, tpl, size) ==
    IF size < 0 THEN None
    ELSE IF _find_value_cfg(values, SubSeq(tpl, 1, size)) # 0
         THEN Some(tpl)
         ELSE PrefixLoopFull(values, tpl, size - 1)

\* for size in range(len(tpl), -1, -1)
RECURSIVE PrefixLoop(_, _, _)
PrefixLoop(values, tpl, size) ==
    IF size < 0 THEN None
    ELSE IF _find_value_cfg(values, SubSeq(tpl, 1, size)) # 0
         THEN Some(SubSeq(tpl, 1, size))
         ELSE PrefixLoop(values, tpl, size - 1)

notify_state_changed(c, attrs) ==
    LET tpl == ObservedTuple(c.slots, attrs)
    IN PrefixLoop(c.values, tpl, Len(tpl))

\* the input of validate_value: a list or a tuple holding items, or any other
\* object, held in scalar (kind is "list", "tuple" or "scalar")
ListObj(items) == [kind |-> "list", items |-> items, scalar |-> NoneV]
TupleObj(items) == [kind |-> "tuple", items |-> items, scalar |-> NoneV]
ScalarObj(x) == [kind |-> "scalar", items |-> <<>>, scalar |-> x]

\* a bug: only the first item is checked
RECURSIVE ItemsLoopFirstOnly(_, _)
ItemsLoopFirstOnly(items, index) ==
    IF index > Len(items) \/ index > 1 THEN "none"
    ELSE IF ~IsInstance(items[index], ALLOWED_VALUE_TYPES) THEN "ValueError"
    ELSE ItemsLoopFirstOnly(items, index + 1)

\* the first item that is no instance of the allowed types raises ValueError
RECURSIVE ItemsLoop(_, _)
ItemsLoop(items, index) ==
    IF index > Len(items) THEN "none"
    ELSE IF ~IsInstance(items[index], ALLOWED_VALUE_TYPES) THEN "ValueError"
    ELSE ItemsLoop(items, index + 1)

validate_value(value) ==
    LET items == IF value.kind = "list" THEN value.items        \* tuple(value)
                 ELSE IF value.kind = "tuple" THEN value.items  \* value
                 ELSE <<value.scalar>>                          \* (value,)
        err == ItemsLoop(items, 1)
    IN [err |-> err, value |-> IF err = "none" THEN Some(items) ELSE None]

---------------------------------------------------------------------------
(* Service data: a tree of dicts, lists, strings and other leaves.          *)
(* A string is the sequence of its parts: literal text, a keyword field     *)
(* "{name}", or a field of the first positional argument "{0[name]}".       *)

Lit(s) == [kind |-> "lit", s |-> s]
Field(name) == [kind |-> "name", s |-> name]
Pos0Key(name) == [kind |-> "pos0key", s |-> name]

StrNode(parts) == [ty |-> "str", parts |-> parts, val |-> NoneV, kids |-> <<>>]
Leaf(x) == [ty |-> x.ty, parts |-> <<>>, val |-> x, kids |-> <<>>]
DictNode(kids) == [ty |-> "dict", parts |-> <<>>, val |-> NoneV, kids |-> kids]
ListNode(items) ==
    [ty |-> "list", parts |-> <<>>, val |-> NoneV,
     kids |-> [i \in 1..Len(items) |-> [k |-> "", n |-> items[i]]]]
Kid(k, n) == [k |-> k, n |-> n]
EmptyDict == DictNode(<<>>)

\* the node of a Python value handed to a format field or to setdefault
NodeOf(x) == IF x.ty = "str" THEN StrNode(<<Lit(x.v)>>) ELSE Leaf(x)

\* str.format(*args, **kwargs): the text, or the error of the first field that
\* cannot be looked up
RECURSIVE Format(_, _, _)
Format(parts, args, kwargs) ==
    IF parts = <<>> THEN [err |-> "none", text |-> <<>>]
    ELSE LET p == Head(parts)
             one == IF p.kind = "lit" THEN [err |-> "none", s |-> p.s]
                    ELSE IF p.kind = "name"
                    THEN (IF p.s \in DOMAIN kwargs
                          THEN [err |-> "none", s |-> kwargs[p.s].v]
                          ELSE [err |-> "KeyError", s |-> ""])
                    ELSE IF Len(args) = 0 THEN [err |-> "IndexError", s |-> ""]
                    ELSE IF p.s \in DOMAIN args[1]
                    THEN [err |-> "none", s |-> args[1][p.s].v]
                    ELSE [err |-> "KeyError", s |-> ""]
             rest == Format(Tail(parts), args, kwargs)
         IN IF one.err # "none" THEN [err |-> one.err, text |-> <<>>]
            ELSE IF rest.err # "none" THEN rest
            ELSE [err |-> "none", text |-> <<Lit(one.s)>> \o rest.text]

NoKwargs == [k \in {} |-> NoneV]

\* hash(obj): dicts and lists are unhashable
Hashable(obj) == obj.ty \notin {"dict", "list"}

\* the for loop over the items of obj from kid i on: a string is formatted in
\* place, a dict or list is added to the memo set
RECURSIVE ItemsWalk(_, _, _)
ItemsWalk(obj, fmt, i) ==
    IF i > Len(obj.kids) THEN [err |-> "none", data |-> obj]
    ELSE LET value == obj.kids[i].n
         IN IF value.ty = "str"
            THEN LET f == Format(value.parts, <<fmt>>, NoKwargs)
                 IN IF f.err # "none" THEN [err |-> f.err, data |-> obj]
                    ELSE ItemsWalk([obj EXCEPT !.kids[i].n = StrNode(f.text)],
                                   fmt, i + 1)
            ELSE IF value.ty \in {"dict", "list"}
            THEN [err |-> "TypeError", data |-> obj]   \* memo.add(value) hashes it
            ELSE ItemsWalk(obj, fmt, i + 1)

\* memo = set((data,)) hashes data before anything is walked
_populate_service_data(data, fmt) ==
    IF ~Hashable(data) THEN [err |-> "TypeError", data |-> data]
    ELSE IF data.ty \in {"dict", "list"} THEN ItemsWalk(data, fmt, 1)
    ELSE [err |-> "none", data |-> data]

---------------------------------------------------------------------------
(* Generic2Actor.do_send *)

SlotKeys == <<"slot0", "slot1", "slot2", "slot3">>
\* "slot{}".format(idx), idx counted from 0
SlotKey(idx) == SlotKeys[idx + 1]

\* fmt: entity_id, and slot{idx} for every configured slot
BuildFmt(slots, value, entity_id) ==
    [k \in {"entity_id"} \cup {SlotKey(idx) : idx \in 0..(Len(slots) - 1)} |->
        IF k = "entity_id" THEN Str(entity_id)
        ELSE LET idx == CHOOSE j \in 0..(Len(slots) - 1) : SlotKey(j) = k
             IN IF idx < Len(value) THEN value[idx + 1] ELSE NoneV]

HasKey(d, key) == \E i \in 1..Len(d.kids) : d.kids[i].k = key
\* dict.setdefault(key, x)
SetDefault(d, key, x) ==
    IF HasKey(d, key) THEN d ELSE [d EXCEPT !.kids = Append(@, Kid(key, x))]

\* a bug: entity_id is set on call_cfg["data"] itself, before the copy is made
CallStepInjectIntoConfig(call_cfg, fmt, entity_id) ==
    LET tmpl == IF call_cfg.include_entity_id
                THEN SetDefault(call_cfg.data, "entity_id", NodeOf(Str(entity_id)))
                ELSE call_cfg.data
        p == _populate_service_data(tmpl, fmt)
    IN [tmpl |-> tmpl, data |-> p.data, err |-> p.err]

\* one round of the loop up to the call of the service: tmpl is the configured
\* data object as the round leaves it, data the mapping built for the call.
\* copy.deepcopy makes data a new object with the content of the configured one,
\* so nothing done to data reaches tmpl
CallStep(call_cfg, fmt, entity_id) ==
    LET data == call_cfg.data
        p == _populate_service_data(data, fmt)
    IN IF p.err # "none"
       THEN [tmpl |-> call_cfg.data, data |-> p.data, err |-> p.err]
       ELSE [tmpl |-> call_cfg.data,
             data |-> IF call_cfg.include_entity_id
                      THEN SetDefault(p.data, "entity_id", NodeOf(Str(entity_id)))
                      ELSE p.data,
             err |-> "none"]

\* the loop over the calls of rule r from call i on. failAt is the number of the
\* call_service invocation that the invoker fails (0: none fails); inv lists the
\* invocations made, a failed one included
RECURSIVE CallsLoop(_, _, _, _, _, _, _)
CallsLoop(values, r, i, fmt, entity_id, failAt, inv) ==
    IF i > Len(values[r].calls) THEN [values |-> values, inv |-> inv, err |-> "none"]
    ELSE LET call_cfg == values[r].calls[i]
             st == CallStep(call_cfg, fmt, entity_id)
             vs == [values EXCEPT ![r].calls[i].data = st.tmpl]
             call == [service |-> call_cfg.service, data |-> st.data]
         IN IF st.err # "none" THEN [values |-> vs, inv |-> inv, err |-> st.err]
            ELSE IF failAt = Len(inv) + 1
            THEN [values |-> vs, inv |-> Append(inv, call),
                  err |-> "ActionInvocationError"]
            ELSE CallsLoop(vs, r, i + 1, fmt, entity_id, failAt, Append(inv, call))

do_send(c, value, entity_id, failAt) ==
    LET fmt == BuildFmt(c.slots, value, entity_id)
        r == _find_value_cfg(c.values, value)
    IN IF r = 0 THEN [values |-> c.values, inv |-> <<>>, err |-> "ValueError"]
       ELSE CallsLoop(c.values, r, 1, fmt, entity_id, failAt, <<>>)

---------------------------------------------------------------------------
(* Configurations *)

ENTITY_ID == "switch.lamp"   \* self.entity_id of the actor under test

Call(service, data, include_entity_id) ==
    [service |-> service, data |-> data, include_entity_id |-> include_entity_id]
Rule(slots, calls) == [slots |-> slots, calls |-> calls]
Slot(attribute) == [attribute |-> attribute]

\* the schema applied to a configuration: the "values" list is sorted
LoadConfig(slots, values) == [slots |-> slots, values |-> SortValues(values)]

\* SwitchActor.config_defaults, with the schema's defaults for data and
\* include_entity_id filled in
SwitchSlots == <<Slot("state")>>
SwitchValues ==
    << Rule(<<On>>, <<Call("homeassistant/turn_on", EmptyDict, TRUE)>>),
       Rule(<<Off>>, <<Call("homeassistant/turn_off", EmptyDict, TRUE)>>) >>

\* a dimmable light: two slots, wildcards, templated and nested service data
LightSlots == <<Slot("state"), Slot("brightness")>>
LightValues ==
    << Rule(<<Off>>, <<>>),
       Rule(<<On>>, <<Call("light/turn_on", EmptyDict, TRUE)>>),
       Rule(<<On, WILDCARD_VALUE>>,
            << Call("light/turn_on",
                    DictNode(<<Kid("brightness", StrNode(<<Field("slot1")>>)),
                               Kid("entity_id", StrNode(<<Lit("light.other")>>))>>),
                    TRUE),
               Call("script/notify",
                    DictNode(<<Kid("meta",
                                   DictNode(<<Kid("who", StrNode(<<Field("entity_id")>>)),
                                              Kid("args", ListNode(<<StrNode(<<Lit("level "), Field("slot1")>>),
                                                                     Leaf(Int1)>>))>>))>>),
                    FALSE) >>),
       Rule(<<WILDCARD_VALUE, Int1>>,
            << Call("light/dim", DictNode(<<Kid("transition", Leaf(Int1))>>), TRUE),
               Call("light/log",
                    DictNode(<<Kid("entity_id", StrNode(<<Field("entity_id")>>))>>),
                    FALSE) >>) >>

\* a configuration that omits both lists
EmptySlots == <<>>
EmptyValues == <<>>

AttrNames == <<"state", "brightness", "color", "effect">>
ServiceNames == <<"svc/a", "svc/b", "svc/c", "svc/d">>

PatScalars == {On, WILDCARD_VALUE}
ValScalars == {On, NoneV, WILDCARD_VALUE}
SendScalars == {On, Off, Flt1}
ItemPool == {On, Int1, Flt1, NoneV, TrueV, DictV, ListV}
ScalarPool == {On, Int1, Flt1, NoneV, TrueV, DictV}

Tuples(S) == UNION {[1..n -> S] : n \in 0..MaxLen}

\* a generated "values" list: rule i has the pattern ps[i] and one call of its own
GenValues(ps) ==
    [i \in 1..Len(ps) |->
        Rule(ps[i], <<Call(ServiceNames[i], EmptyDict, TRUE)>>)]
GenSlots(n) == [i \in 1..n |-> Slot(AttrNames[i])]

---------------------------------------------------------------------------
(* State machine *)

NoAttrs == [a \in {} |-> NoneV]
NoInput == ScalarObj(NoneV)

Ret(op, value, attrs, input, idx, out, err, failAt, inv) ==
    [op |-> op, value |-> value, attrs |-> attrs, input |-> input, idx |-> idx,
     out |-> out, err |-> err, failAt |-> failAt, inv |-> inv]
Idle == Ret("idle", <<>>, NoAttrs, NoInput, 0, None, "none", 0, <<>>)

InitWith(slots, values) ==
    /\ cfg = LoadConfig(slots, values)
    /\ raw_values = values
    /\ wanted_value = None
    /\ invoked = <<>>
    /\ ret = Idle

\* any configuration of up to MaxRules rules over up to MaxLen slots
Init ==
    \E k \in 0..MaxLen : \E n \in 0..MaxRules : \E ps \in [1..n -> Tuples(PatScalars)] :
        InitWith(GenSlots(k), GenValues(ps))

SendConfigs ==
    { <<SwitchSlots, SwitchValues>>, <<LightSlots, LightValues>>,
      <<EmptySlots, EmptyValues>> }

SendInit == \E c \in SendConfigs : InitWith(c[1], c[2])

ValidateInit == InitWith(SwitchSlots, SwitchValues)

\* _find_value_cfg(value) is called; idx is the rule returned, ValueError if none
FindValueCfg ==
    /\ ret.op = "idle"
    /\ \E value \in Tuples(ValScalars) :
        LET idx == _find_value_cfg(cfg.values, value)
        IN ret' = Ret("_find_value_cfg", value, NoAttrs, NoInput, idx, None,
                      IF idx = 0 THEN "ValueError" ELSE "none", 0, <<>>)
    /\ UNCHANGED <<cfg, raw_values, wanted_value, invoked>>

FilterSetValue ==
    /\ ret.op = "idle"
    /\ \E value \in Tuples(ValScalars) :
        ret' = Ret("filter_set_value", value, NoAttrs, NoInput, 0,
                   filter_set_value(cfg.values, value), "none", 0, <<>>)
    /\ UNCHANGED <<cfg, raw_values, wanted_value, invoked>>

NotifyStateChanged ==
    /\ ret.op = "idle"
    /\ \E present \in SUBSET {cfg.slots[i].attribute : i \in 1..Len(cfg.slots)} :
       \E attrs \in [present -> ValScalars] :
        ret' = Ret("notify_state_changed", <<>>, attrs, NoInput, 0,
                   notify_state_changed(cfg, attrs), "none", 0, <<>>)
    /\ UNCHANGED <<cfg, raw_values, wanted_value, invoked>>

ValidateInputs ==
    {ListObj(t) : t \in Tuples(ItemPool)} \cup {TupleObj(t) : t \in Tuples(ItemPool)}
    \cup {ScalarObj(x) : x \in ScalarPool}

ValidateValue ==
    /\ ret.op = "idle"
    /\ \E input \in ValidateInputs :
        LET res == validate_value(input)
        IN ret' = Ret("validate_value", <<>>, NoAttrs, input, 0, res.value,
                      res.err, 0, <<>>)
    /\ UNCHANGED <<cfg, raw_values, wanted_value, invoked>>

\* do_send() with self._wanted_value = value, against an invoker that fails its
\* failAt-th invocation
DoSend ==
    /\ ret.op = "idle"
    /\ \E value \in Tuples(SendScalars) : \E failAt \in 0..MaxCalls :
        LET res == do_send(cfg, value, ENTITY_ID, failAt)
        IN /\ wanted_value' = Some(value)
           /\ cfg' = [cfg EXCEPT !.values = res.values]
           /\ invoked' = invoked \o res.inv
           /\ ret' = Ret("do_send", value, NoAttrs, NoInput, 0, None, res.err,
                         failAt, res.inv)
    /\ UNCHANGED raw_values

\* the caller takes the outcome; the actor is ready for the next call
Return ==
    /\ ret.op # "idle"
    /\ ret' = Idle
    /\ UNCHANGED <<cfg, raw_values, wanted_value, invoked>>

Next == FindValueCfg \/ FilterSetValue \/ NotifyStateChanged \/ Return
Spec == Init /\ [][Next]_vars

SendNext == DoSend \/ Return
SendSpec == SendInit /\ [][SendNext]_vars

ValidateNext == ValidateValue \/ Return
ValidateSpec == ValidateInit /\ [][ValidateNext]_vars

---------------------------------------------------------------------------
(* What the claims speak of, stated apart from the loops above *)

\* pattern and value have the same length and agree wherever the pattern holds
\* no wildcard
Matches(pattern, value) ==
    /\ Len(pattern) = Len(value)
    /\ \A i \in 1..Len(pattern) :
        pattern[i] = WILDCARD_VALUE \/ PyEq(pattern[i], value[i])

MatchingRules(values, value) ==
    {i \in 1..Len(values) : Matches(values[i].slots, value)}
FirstMatch(values, value) ==
    CHOOSE i \in MatchingRules(values, value) :
        \A j \in MatchingRules(values, value) : i <= j

\* the full-length tuple of the observed slot values, a missing attribute as None
Observed(slots, attrs) ==
    [i \in 1..Len(slots) |->
        IF slots[i].attribute \in DOMAIN attrs THEN attrs[slots[i].attribute]
        ELSE NoneV]
MatchingPrefixes(c, attrs) ==
    {L \in 0..Len(c.slots) :
        MatchingRules(c.values, SubSeq(Observed(c.slots, attrs), 1, L)) # {}}

Wildcards(pattern) == Cardinality({i \in 1..Len(pattern) : pattern[i] = WILDCARD_VALUE})

\* C3 (first half): the table is the configured list in descending pattern
\* length, the configured order kept among patterns of one length.
TableSortedStable ==
    /\ Len(cfg.values) = Len(raw_values)
    /\ \A i, j \in 1..Len(cfg.values) :
        i < j => Len(cfg.values[i].slots) >= Len(cfg.values[j].slots)
    /\ \E p \in Permutations(1..Len(raw_values)) :
        /\ \A i \in 1..Len(cfg.values) : cfg.values[i] = raw_values[p[i]]
        /\ \A i, j \in 1..Len(cfg.values) :
            (i < j /\ Len(cfg.values[i].slots) = Len(cfg.values[j].slots))
                => p[i] < p[j]

\* C3: the rule table is sorted by descending pattern length, stably, and
\* _find_value_cfg(V) returns the first rule of the table whose pattern has
\* len(V) elements, each the wildcard or equal to V's; it is the earliest
\* configured of the matching rules, and ValueError is raised when none matches.
C3_FirstMatchInSortedTable ==
    /\ TableSortedStable
    /\ ret.op = "_find_value_cfg" =>
        IF MatchingRules(cfg.values, ret.value) = {}
        THEN ret.idx = 0 /\ ret.err = "ValueError"
        ELSE /\ ret.idx = FirstMatch(cfg.values, ret.value)
             /\ ret.err = "none"
             /\ cfg.values[ret.idx] = raw_values[FirstMatch(raw_values, ret.value)]

\* two rules of one length match, the earlier configured one through more
\* wildcards, and the earlier one is returned
C3_Witness ==
    /\ ret.op = "_find_value_cfg"
    /\ ret.idx # 0
    /\ \E j \in MatchingRules(cfg.values, ret.value) :
        /\ j > ret.idx
        /\ Wildcards(cfg.values[j].slots) < Wildcards(cfg.values[ret.idx].slots)

\* C2: notify_state_changed returns the longest prefix O[:L], L in N..0, of the
\* observed tuple O that matches a configured pattern, and None exactly when no
\* prefix, the empty one included, matches.
C2_LongestMatchingPrefix ==
    ret.op = "notify_state_changed" =>
        LET O == Observed(cfg.slots, ret.attrs)
            Ls == MatchingPrefixes(cfg, ret.attrs)
        IN IF Ls = {} THEN ret.out = None
           ELSE \E L \in Ls :
                /\ \A M \in Ls : M <= L
                /\ ret.out = Some(SubSeq(O, 1, L))

\* a proper, non-empty prefix is returned: the full tuple matches no pattern
C2_Witness ==
    /\ ret.op = "notify_state_changed"
    /\ ~ret.out.none
    /\ 0 < Len(ret.out.value)
    /\ Len(ret.out.value) < Len(cfg.slots)

\* C10: a tuple W returned by notify_state_changed has at most N elements, is a
\* prefix of the observed tuple, and is accepted unchanged by filter_set_value.
C10_ObservedValueIsSettable ==
    (ret.op = "notify_state_changed" /\ ~ret.out.none) =>
        LET W == ret.out.value
            O == Observed(cfg.slots, ret.attrs)
        IN /\ Len(W) <= Len(cfg.slots)
           /\ W = SubSeq(O, 1, Len(W))
           /\ filter_set_value(cfg.values, W) = Some(W)
           /\ _find_value_cfg(cfg.values, W) # 0

\* a tuple shorter than the observed one is returned and passes the filter
C10_Witness ==
    /\ ret.op = "notify_state_changed"
    /\ ~ret.out.none
    /\ Len(ret.out.value) < Len(cfg.slots)
    /\ filter_set_value(cfg.values, ret.out.value) = ret.out

\* C5: filter_set_value(V) returns V when a rule matches V and None, without an
\* error, when none does; it invokes no service and leaves the rule table as is.
C5_FilterIsPassThroughGate ==
    [][ (ret.op = "idle" /\ ret'.op = "filter_set_value") =>
          /\ ret'.err = "none"
          /\ ret'.out = IF MatchingRules(cfg.values, ret'.value) # {}
                        THEN Some(ret'.value) ELSE None
          /\ invoked' = invoked
          /\ cfg' = cfg ]_vars

\* a value that no rule of a non-empty table matches has been filtered out
C5_Witness ==
    /\ ret.op = "filter_set_value"
    /\ ret.out = None
    /\ cfg.values # <<>>
    /\ invoked = <<>>

Allowed(x) == x.ty \in {"float", "int", "str", "none", "bool"}

\* C4: validate_value turns a scalar of an allowed type into the 1-tuple holding
\* it and a list into the tuple of its elements in order; an input with an
\* element of another type raises the error and yields no tuple; no service is
\* invoked either way. (A bool is an int, as in Python.)
C4_ValidateValue ==
    [][ (ret.op = "idle" /\ ret'.op = "validate_value") =>
          LET inp == ret'.input
              items == IF inp.kind = "scalar" THEN <<inp.scalar>> ELSE inp.items
          IN /\ invoked' = invoked
             /\ IF \A i \in 1..Len(items) : Allowed(items[i])
                THEN /\ ret'.err = "none"
                     /\ ~ret'.out.none
                     /\ Len(ret'.out.value) = Len(items)
                     /\ \A i \in 1..Len(items) : ret'.out.value[i] = items[i]
                ELSE ret'.err = "ValueError" /\ ret'.out = None ]_vars

\* a list whose first element is allowed and whose second is not is rejected
C4_Witness ==
    /\ ret.op = "validate_value"
    /\ ret.input.kind = "list"
    /\ Len(ret.input.items) = 2
    /\ Allowed(ret.input.items[1])
    /\ ~Allowed(ret.input.items[2])
    /\ ret.err = "ValueError"
    /\ ret.out = None

---------------------------------------------------------------------------
(* do_send *)

\* the substitution map of the claims: slot{i} for every configured slot, V[i]
\* or None, and entity_id
SubstMap(c, value) ==
    [k \in {"entity_id"} \cup {SlotKey(i) : i \in 0..(Len(c.slots) - 1)} |->
        IF k = "entity_id" THEN Str(ENTITY_ID)
        ELSE LET i == CHOOSE j \in 0..(Len(c.slots) - 1) : SlotKey(j) = k
             IN IF i < Len(value) THEN value[i + 1] ELSE NoneV]

\* a string with each named placeholder replaced by the text of its value
ExpandParts(parts, map) ==
    [i \in 1..Len(parts) |->
        IF parts[i].kind = "lit" THEN parts[i] ELSE Lit(map[parts[i].s].v)]

\* a template with every string leaf expanded, at any depth
RECURSIVE Expand(_, _)
Expand(node, map) ==
    IF node.ty = "str" THEN StrNode(ExpandParts(node.parts, map))
    ELSE IF node.ty \in {"dict", "list"}
    THEN [node EXCEPT !.kids =
            [i \in 1..Len(node.kids) |->
                Kid(node.kids[i].k, Expand(node.kids[i].n, map))]]
    ELSE node

Value(d, key) == d.kids[CHOOSE i \in 1..Len(d.kids) : d.kids[i].k = key].n

\* the rule do_send's value resolves to, as configured at load time
SentRule == LoadConfig(cfg.slots, raw_values).values[
                FirstMatch(LoadConfig(cfg.slots, raw_values).values, ret.value)]
\* do_send ran for a value that some rule matches
SentMatched ==
    /\ ret.op = "do_send"
    /\ MatchingRules(LoadConfig(cfg.slots, raw_values).values, ret.value) # {}

C1_InvokesActionsOfFirstMatch ==
    (SentMatched /\ ret.failAt = 0) =>
        /\ ret.err = "none"
        /\ Len(ret.inv) = Len(SentRule.calls)
        /\ \A i \in 1..Len(ret.inv) : ret.inv[i].service = SentRule.calls[i].service

\* C6: the parameters of every action do_send invokes carry the configured
\* entity_id when there is one, the controlled entity's when the flag is set and
\* none is configured, and none when the flag is unset and none is configured.
C6_EntityIdInjection ==
    (SentMatched /\ ret.failAt = 0) =>
        /\ Len(ret.inv) = Len(SentRule.calls)
        /\ \A i \in 1..Len(ret.inv) :
            LET call_cfg == SentRule.calls[i]
                data == ret.inv[i].data
            IN IF HasKey(call_cfg.data, "entity_id")
               THEN /\ HasKey(data, "entity_id")
                    /\ Value(data, "entity_id")
                        = Expand(Value(call_cfg.data, "entity_id"),
                                 SubstMap(cfg, ret.value))
               ELSE IF call_cfg.include_entity_id
               THEN /\ HasKey(data, "entity_id")
                    /\ Value(data, "entity_id") = NodeOf(Str(ENTITY_ID))
               ELSE ~HasKey(data, "entity_id")

\* C8: when the invoker fails its i-th invocation, do_send ends with that
\* failure, the actions before i were each invoked once, the i-th once and no
\* later one.
C8_FailurePropagatesNoRetry ==
    (SentMatched /\ ret.failAt >= 1 /\ ret.failAt <= Len(SentRule.calls)) =>
        /\ ret.err = "ActionInvocationError"
        /\ Len(ret.inv) = ret.failAt
        /\ \A i \in 1..Len(ret.inv) : ret.inv[i].service = SentRule.calls[i].service

\* C9: the parameters do_send passes for each action are the action's template
\* with every string leaf, at any depth, expanded against slot{i} and entity_id,
\* and every other leaf as configured.
C9_TemplatesExpanded ==
    (SentMatched /\ ret.failAt = 0) =>
        /\ Len(ret.inv) = Len(SentRule.calls)
        /\ \A i \in 1..Len(ret.inv) :
            LET want == Expand(SentRule.calls[i].data, SubstMap(cfg, ret.value))
                data == ret.inv[i].data
            IN /\ Len(data.kids) >= Len(want.kids)
               /\ \A k \in 1..Len(want.kids) : data.kids[k] = want.kids[k]

====
